---- MODULE Spec2Model ----
(***************************************************************************)
(* Real-World Physics Simulation API (server.js).                          *)
(*                                                                         *)
(* The service is an express application with four POST handlers that call *)
(* the static methods of PhysicsEngine.  Node runs one handler at a time,  *)
(* so a handler is one atomic action, except that the integration loop of  *)
(* calculateTrajectory is unfolded into one action per iteration.          *)
(*                                                                         *)
(* Numbers.  A JavaScript double is modelled as a fixed-point decimal with *)
(* five fractional digits: the integer n stands for n / 10^5. Products and *)
(* quotients are rounded to the nearest 10^-5.  One further value, NaN,    *)
(* stands for every non-finite double (NaN, +Infinity, -Infinity): it      *)
(* propagates through arithmetic, every comparison with it is false, and   *)
(* JSON renders it as null.  A request field that is absent from the JSON  *)
(* body (undefined) is the value `undefined` (numbers) or NoName (names).  *)
(***************************************************************************)
EXTENDS Integers, Sequences, FiniteSets, TLC

\* ------------------------------------------------------------------------
\* Fixed-point arithmetic standing for IEEE doubles
\* ------------------------------------------------------------------------
S == 10^5

K == 10^3
NaN == -(2^30 + (2^30 - 1))

undefined == NaN + 1

Num(n) == n * S

Abs(a) == IF a < 0 THEN -a ELSE a

Sgn(a) == IF a < 0 THEN -1 ELSE 1

\* undefined in arithmetic or in a comparison is NaN
IsNaN(a) == a = NaN \/ a = undefined

\* a + b and a - b
Add(a, b) == IF IsNaN(a) \/ IsNaN(b) THEN NaN ELSE a + b

Sub(a, b) == IF IsNaN(a) \/ IsNaN(b) THEN NaN ELSE a - b

Neg(a) == IF IsNaN(a) THEN NaN ELSE -a

\* the product of two non-negative fixed-point numbers, by halves so that no
\* intermediate value leaves the 32-bit integers
MulU(a, b) ==
  LET ah == a \div S
      al == a % S
      bh == b \div S
      bl == b % S
      a1 == al \div K
      a0 == al % K
      b1 == bl \div K
      b0 == bl % K
  IN  ah * bh * S + ah * bl + al * bh + a1 * b1 * ((K * K) \div S)
        + ((a1 * b0 + a0 * b1) * K + a0 * b0 + S \div 2) \div S

\* a * b
Mul(a, b) ==
  IF IsNaN(a) \/ IsNaN(b) THEN NaN ELSE Sgn(a) * Sgn(b) * MulU(Abs(a), Abs(b))

RECURSIVE Frac(_, _, _)
\* the decimal digits of r / b down to the unit u, for 0 <= r < b
Frac(r, b, u) ==
  IF u = 1 THEN (IF 2 * r >= b THEN 1 ELSE 0)
  ELSE ((r * 10) \div b) * (u \div 10) + Frac((r * 10) % b, b, u \div 10)

DivU(a, b) == (a \div b) * S + Frac(a % b, b, S)

\* a / b; a zero divisor gives a non-finite double
Div(a, b) ==
  IF IsNaN(a) \/ IsNaN(b) \/ b = 0 THEN NaN
  ELSE Sgn(a) * Sgn(b) * DivU(Abs(a), Abs(b))

RECURSIVE ISqrt(_)
\* the integer square root
ISqrt(n) ==
  IF n < 2 THEN n
  ELSE LET s == 2 * ISqrt(n \div 4)
       IN  IF (s + 1) * (s + 1) <= n THEN s + 1 ELSE s

\* Math.sqrt: the integer root, scaled by the root of S, is the first guess;
\* three Newton steps give the remaining digits
Sqrt(a) ==
  IF IsNaN(a) \/ a < 0 THEN NaN
  ELSE IF a = 0 THEN 0
  ELSE LET r0 == ISqrt(a) * ISqrt(S) + ISqrt(S)
           r1 == (r0 + DivU(a, r0)) \div 2
           r2 == (r1 + DivU(a, r1)) \div 2
       IN  (r2 + DivU(a, r2) + 1) \div 2

\* comparisons of doubles: false when an operand is NaN
GE(a, b) == ~IsNaN(a) /\ ~IsNaN(b) /\ a >= b

GT(a, b) == ~IsNaN(a) /\ ~IsNaN(b) /\ a > b

LT(a, b) == ~IsNaN(a) /\ ~IsNaN(b) /\ a < b

LE(a, b) == ~IsNaN(a) /\ ~IsNaN(b) /\ a <= b

\* parseFloat(a.toFixed(d)): round half away from zero to d digits (a sixth
\* digit is below the resolution of the model)
ToFixed(a, d) ==
  IF IsNaN(a) THEN NaN
  ELSE LET u == IF 10^d >= S THEN 1 ELSE S \div 10^d
       IN  Sgn(a) * ((Abs(a) + u \div 2) \div u) * u

\* JavaScript truthiness of a number-valued field
Truthy(a) == ~IsNaN(a) /\ a # 0

\* a destructuring default: used when the field is undefined
Default(a, d) == IF a = undefined THEN d ELSE a

\* ------------------------------------------------------------------------
\* Exact arithmetic.  The collision formulas are closed-form algebra on a
\* few request numbers; there the doubles are modelled by exact rationals
\* n / d in lowest terms (the rounding error of a double, about 10^-16, is
\* far below the third decimal the results are rounded to).  d = 0 is NaN.
\* ------------------------------------------------------------------------
RECURSIVE GCD(_, _)
GCD(a, b) == IF b = 0 THEN a ELSE GCD(b, a % b)

QNaN == [n |-> 0, d |-> 0]

Norm(n, d) ==
  IF d = 0 THEN QNaN
  ELSE LET g == GCD(Abs(n), Abs(d))
       IN  [n |-> Sgn(d) * (n \div g), d |-> Abs(d) \div g]

\* the rational of a fixed-point number
Q(a) == IF IsNaN(a) THEN QNaN ELSE Norm(a, S)

QAdd(p, q) == IF p.d = 0 \/ q.d = 0 THEN QNaN ELSE Norm(p.n * q.d + q.n * p.d, p.d * q.d)

QSub(p, q) == IF p.d = 0 \/ q.d = 0 THEN QNaN ELSE Norm(p.n * q.d - q.n * p.d, p.d * q.d)

QMul(p, q) == IF p.d = 0 \/ q.d = 0 THEN QNaN ELSE Norm(p.n * q.n, p.d * q.d)

\* p / q; a zero divisor gives a non-finite double
QDiv(p, q) == IF p.d = 0 \/ q.d = 0 \/ q.n = 0 THEN QNaN ELSE Norm(p.n * q.d, p.d * q.n)

\* parseFloat(p.toFixed(3)) as a fixed-point number: round half away from zero
QToFixed(p, digits) ==
  IF p.d = 0 THEN NaN
  ELSE LET m == 10^digits
           whole == Abs(p.n) \div p.d
           rest == Abs(p.n) % p.d
       IN  Sgn(p.n) * (whole * m + (2 * rest * m + p.d) \div (2 * p.d)) * (S \div m)

\* ------------------------------------------------------------------------
\* Constants and the material catalog (server.js 26-44)
\* ------------------------------------------------------------------------
GRAVITY == 981000

AIR_DENSITY == 122500

PI == 314159

HALF == S \div 2

\* dt = 0.01 s
dt == S \div 100

\* a slip in the cutoff: 301 s
T_CUTOFF_301 == 301 * 10^5

\* the safety cutoff of the integration loop, 300 s
T_CUTOFF == Num(300)

Material(m, r, c, b) == [mass |-> m, radius |-> r, dragCoeff |-> c, bounciness |-> b]

MATERIALS ==
  [basketball     |-> Material(62400, 11940, 47000, 85000),
   soccer         |-> Material(43000, 11000, 25000, 75000),
   tennis         |-> Material(5700, 3350, 51000, 73000),
   baseball       |-> Material(14500, 3700, 30000, 55000),
   golf           |-> Material(4600, 2100, 24000, 78000),
   bowling        |-> Material(726000, 10800, 15000, 15000),
   rock           |-> Material(50000, 5000, 47000, 20000),
   paper_airplane |-> Material(300, 10000, 2000, 10000),
   custom         |-> Material(S, 5000, 47000, 60000)]

\* the name of a field that the request does not carry
\* The two module-level objects as the running process holds them: const
\* bindings of mutable objects, which every request reads
VARIABLE globals

\* the objects as the module's top level builds them
ModuleScope ==
  [PHYSICS_CONSTANTS |-> [GRAVITY |-> GRAVITY, AIR_DENSITY |-> AIR_DENSITY],
   MATERIALS |-> MATERIALS]

NoName == "(undefined)"

\* MATERIALS is a plain object literal: besides its nine own keys, indexing it
\* finds the members it inherits from Object.prototype
ObjectPrototypeKeys ==
  {"constructor", "toString", "valueOf", "hasOwnProperty", "__proto__"}

\* an inherited member: a truthy function or object, none of whose properties
\* mass, radius, dragCoeff, bounciness exists (undefined, NaN in arithmetic)
Inherited == Material(NaN, NaN, NaN, NaN)

\* MATERIALS[material] || MATERIALS.custom
LookupMaterial(material) ==
  IF material \in DOMAIN globals.MATERIALS THEN globals.MATERIALS[material]
  ELSE IF material \in ObjectPrototypeKeys THEN Inherited
  ELSE globals.MATERIALS.custom

\* a default of a name-valued field
DefaultName(a, d) == IF a = NoName THEN d ELSE a

\* ------------------------------------------------------------------------
\* Vectors
\* ------------------------------------------------------------------------
Vec(a, b) == [x |-> a, y |-> b]

\* a vector-valued field that the request does not carry
NoVector == Vec(undefined, undefined)

DefaultVec(v, d) == IF v = NoVector THEN d ELSE v

\* a field that the request carries as null: no default replaces it, and
\* reading a property of it throws a TypeError
JNull == [null |-> TRUE]

\* x**2 + y**2
SumSq(a, b) == Add(Mul(a, a), Mul(b, b))

\* ------------------------------------------------------------------------
\* PhysicsEngine.calculateImpact (server.js 121-153)
\* ------------------------------------------------------------------------
surfaceFactors ==
  [concrete |-> S, grass |-> 70000, sand |-> 50000, water |-> 30000,
   wood |-> 80000, metal |-> 120000]

\* surfaceFactors[impactSurface] || 1.0; an inherited member is a function,
\* and a number times a function is NaN
SurfaceFactor(impactSurface) ==
  IF impactSurface \in DOMAIN surfaceFactors THEN surfaceFactors[impactSurface]
  ELSE IF impactSurface \in ObjectPrototypeKeys THEN NaN
  ELSE S

\* impactAngle (an arc tangent of the two speeds) is left out of the result
\* the obj of calculateImpact; material = 'basketball' when undefined
ImpactObj(material) == LookupMaterial(DefaultName(material, "basketball"))

calculateImpact(finalVelocity, material, impactSurface) ==
  LET obj == ImpactObj(material)
      speed == Sqrt(SumSq(finalVelocity.vx, finalVelocity.vy))
      kineticEnergy == Mul(Mul(Mul(HALF, obj.mass), speed), speed)
      contactTime == Mul(obj.bounciness, S \div 100)
      impactForce == Div(Mul(obj.mass, speed), contactTime)
      surfaceFactor == SurfaceFactor(DefaultName(impactSurface, "concrete"))
      adjustedForce == Mul(impactForce, surfaceFactor)
  IN  [impactSpeed          |-> ToFixed(speed, 3),
       kineticEnergy        |-> ToFixed(kineticEnergy, 3),
       impactForce          |-> ToFixed(adjustedForce, 3),
       estimatedContactTime |-> ToFixed(Mul(contactTime, Num(1000)), 2)]

\* ------------------------------------------------------------------------
\* PhysicsEngine.calculateCollision (server.js 156-199)
\* ------------------------------------------------------------------------
CollisionObject(m1, v1, m2, v2, e) ==
  [mass1 |-> m1, velocity1 |-> v1, mass2 |-> m2, velocity2 |-> v2,
   restitution |-> e]

\* { ...obj1, ...obj2 }: a field of obj2 overrides the same field of obj1
Spread(obj1, obj2) ==
  CollisionObject(Default(obj2.mass1, obj1.mass1),
                  DefaultVec(obj2.velocity1, obj1.velocity1),
                  Default(obj2.mass2, obj1.mass2),
                  DefaultVec(obj2.velocity2, obj1.velocity2),
                  Default(obj2.restitution, obj1.restitution))

\* (2 * m / totalMass) * rel * restitution
Exchange(m, totalMass, rel, restitution) ==
  QMul(QMul(QDiv(QMul(Q(Num(2)), m), totalMass), rel), restitution)

\* a slip of sign in v1Final: the exchange is added
v1FinalAdded(velocity1, mass2, totalMass, rel, restitution) ==
  Vec(QAdd(velocity1.x, Exchange(mass2, totalMass, rel.x, restitution)),
      QAdd(velocity1.y, Exchange(mass2, totalMass, rel.y, restitution)))

v1FinalOf(velocity1, mass2, totalMass, rel, restitution) ==
  Vec(QSub(velocity1.x, Exchange(mass2, totalMass, rel.x, restitution)),
      QSub(velocity1.y, Exchange(mass2, totalMass, rel.y, restitution)))

\* a slip in v2Final: the exchange is weighted by the wrong share, 1 / totalMass
v2FinalUnweighted(velocity2, mass1, totalMass, rel, restitution) ==
  Vec(QAdd(velocity2.x, Exchange(Q(HALF), totalMass, rel.x, restitution)),
      QAdd(velocity2.y, Exchange(Q(HALF), totalMass, rel.y, restitution)))

v2FinalOf(velocity2, mass1, totalMass, rel, restitution) ==
  Vec(QAdd(velocity2.x, Exchange(mass1, totalMass, rel.x, restitution)),
      QAdd(velocity2.y, Exchange(mass1, totalMass, rel.y, restitution)))

\* 0.5 * m1 * (v1.x**2 + v1.y**2) + 0.5 * m2 * (v2.x**2 + v2.y**2)
KineticEnergy(m1, v1, m2, v2) ==
  QAdd(QMul(QMul(Q(HALF), m1), QAdd(QMul(v1.x, v1.x), QMul(v1.y, v1.y))),
       QMul(QMul(Q(HALF), m2), QAdd(QMul(v2.x, v2.x), QMul(v2.y, v2.y))))

\* the destructured arguments of calculateCollision, with their defaults
CollisionArgs(obj1, obj2) ==
  LET o == Spread(obj1, obj2)
  IN  CollisionObject(Default(o.mass1, Num(1)),
                      DefaultVec(o.velocity1, Vec(Num(10), 0)),
                      Default(o.mass2, Num(1)),
                      DefaultVec(o.velocity2, Vec(Num(-5), 0)),
                      Default(o.restitution, 80000))

\* velocity1.x or velocity2.x of a null velocity (line 166) throws
CollisionThrows(obj1, obj2) ==
  LET a == CollisionArgs(obj1, obj2)
  IN  a.velocity1 = JNull \/ a.velocity2 = JNull

calculateCollision(obj1, obj2) ==
  LET a == CollisionArgs(obj1, obj2)
      mass1 == Q(a.mass1)
      velocity1 == Vec(Q(a.velocity1.x), Q(a.velocity1.y))
      mass2 == Q(a.mass2)
      velocity2 == Vec(Q(a.velocity2.x), Q(a.velocity2.y))
      restitution == Q(a.restitution)
      totalMass == QAdd(mass1, mass2)
      relativeVelocity ==
        Vec(QSub(velocity1.x, velocity2.x), QSub(velocity1.y, velocity2.y))
      v1Final == v1FinalOf(velocity1, mass2, totalMass, relativeVelocity, restitution)
      v2Final == v2FinalOf(velocity2, mass1, totalMass, relativeVelocity, restitution)
      initialKE == KineticEnergy(mass1, velocity1, mass2, velocity2)
      finalKE == KineticEnergy(mass1, v1Final, mass2, v2Final)
      rel == Vec(Sub(a.velocity1.x, a.velocity2.x), Sub(a.velocity1.y, a.velocity2.y))
  IN  [object1FinalVelocity |-> Vec(QToFixed(v1Final.x, 3), QToFixed(v1Final.y, 3)),
       object2FinalVelocity |-> Vec(QToFixed(v2Final.x, 3), QToFixed(v2Final.y, 3)),
       energyLoss |-> QToFixed(QSub(initialKE, finalKE), 3),
       impactForce |->
         ToFixed(Div(Mul(a.mass1, Sqrt(SumSq(rel.x, rel.y))), S \div 100), 3)]

\* ------------------------------------------------------------------------
\* PhysicsEngine.calculateForces (server.js 202-267)
\* ------------------------------------------------------------------------
\* the values of a boolean field: true, false, or absent from the request
JTrue == "true"

JFalse == "false"

JUndefined == "undefined"

ForcesParams(m, v, h, mat, air) ==
  [mass |-> m, velocity |-> v, height |-> h, material |-> mat,
   includeAirResistance |-> air]

\* the obj of calculateForces; material = 'basketball' when undefined
ForcesObj(params) == LookupMaterial(DefaultName(params.material, "basketball"))

\* forces.gravity
GravityForce(obj) ==
  [magnitude |-> Mul(obj.mass, globals.PHYSICS_CONSTANTS.GRAVITY),
   vector |-> Vec(0, Mul(Neg(obj.mass), globals.PHYSICS_CONSTANTS.GRAVITY))]

\* forces.airResistance
DragForce(obj, velocity) ==
  LET speed == Sqrt(SumSq(velocity.x, velocity.y))
      crossSectionalArea == Mul(Mul(PI, obj.radius), obj.radius)
      dragMagnitude ==
        Mul(Mul(Mul(Mul(Mul(HALF, obj.dragCoeff), globals.PHYSICS_CONSTANTS.AIR_DENSITY),
                    crossSectionalArea), speed), speed)
  IN  [magnitude |-> ToFixed(dragMagnitude, 3),
       vector |->
         Vec(IF GT(speed, 0)
               THEN ToFixed(Div(Mul(Neg(dragMagnitude), velocity.x), speed), 3) ELSE 0,
             IF GT(speed, 0)
               THEN ToFixed(Div(Mul(Neg(dragMagnitude), velocity.y), speed), 3) ELSE 0)]

\* forces.buoyancy
BuoyancyForce(obj) ==
  LET airBuoyancy ==
        Mul(Mul(globals.PHYSICS_CONSTANTS.AIR_DENSITY, globals.PHYSICS_CONSTANTS.GRAVITY),
            Mul(Mul(Div(Num(4), Num(3)), PI), Mul(Mul(obj.radius, obj.radius), obj.radius)))
  IN  [magnitude |-> ToFixed(airBuoyancy, 6), vector |-> Vec(0, airBuoyancy)]

\* x || 0
OrZero(a) == IF Truthy(a) THEN a ELSE 0

\* forces.net, from the forces built so far
NetForce(forces) ==
  LET drag == IF "airResistance" \in DOMAIN forces
                THEN forces.airResistance.vector ELSE NoVector
      netForce ==
        Vec(Add(Add(forces.gravity.vector.x, OrZero(drag.x)), forces.buoyancy.vector.x),
            Add(Add(forces.gravity.vector.y, OrZero(drag.y)), forces.buoyancy.vector.y))
  IN  [magnitude |-> ToFixed(Sqrt(SumSq(netForce.x, netForce.y)), 3),
       vector |-> Vec(ToFixed(netForce.x, 3), ToFixed(netForce.y, 3))]

\* if (includeAirResistance), with includeAirResistance = true by default
IncludesDrag(params) ==
  (IF params.includeAirResistance = JUndefined THEN JTrue
   ELSE params.includeAirResistance) = JTrue

\* velocity.x of a null velocity (line 223) throws; the line is reached only
\* with air resistance included
ForcesThrows(params) == IncludesDrag(params) /\ params.velocity = JNull

calculateForces(params) ==
  LET velocity == DefaultVec(params.velocity, Vec(0, 0))
      obj == ForcesObj(params)
      f1 == [gravity |-> GravityForce(obj)]
      f2 == IF IncludesDrag(params)
              THEN f1 @@ [airResistance |-> DragForce(obj, velocity)] ELSE f1
      f3 == f2 @@ [buoyancy |-> BuoyancyForce(obj)]
  IN  f3 @@ [net |-> NetForce(f3)]

\* ------------------------------------------------------------------------
\* PhysicsEngine.calculateTrajectory (server.js 50-118)
\* ------------------------------------------------------------------------
TrajectoryParams(h, v, angle, mat, ws, wd, rho, g, surface) ==
  [initialHeight |-> h, initialVelocity |-> v, launchAngle |-> angle,
   material |-> mat, windSpeed |-> ws, windDirection |-> wd,
   airDensity |-> rho, gravity |-> g, impactSurface |-> surface]

\* Math.sin of whole degrees between 0 and 180 (the angles the requests of
\* this model carry), to five digits
SinTable ==
  [d \in {0, 10, 15, 30, 45, 60, 75, 80, 90, 100, 105, 120, 135, 150, 165, 170, 180} |->
     CASE d = 0 -> 0
       [] d = 10 -> 17365
       [] d = 15 -> 25882
       [] d = 30 -> 50000
       [] d = 45 -> 70711
       [] d = 60 -> 86603
       [] d = 75 -> 96593
       [] d = 80 -> 98481
       [] d = 90 -> 100000
       [] d = 100 -> 98481
       [] d = 105 -> 96593
       [] d = 120 -> 86603
       [] d = 135 -> 70711
       [] d = 150 -> 50000
       [] d = 165 -> 25882
       [] d = 170 -> 17365
       [] d = 180 -> 0]

\* Math.sin((deg * Math.PI) / 180)
SinDeg(deg) ==
  IF IsNaN(deg) THEN NaN
  ELSE Sgn(deg) * SinTable[Abs(deg) \div S]

\* Math.cos((deg * Math.PI) / 180) = sin(90 - |deg|)
CosDeg(deg) ==
  IF IsNaN(deg) THEN NaN
  ELSE LET c == 90 - Abs(deg) \div S
       IN  Sgn(c) * SinTable[Abs(c)]

\* the obj of calculateTrajectory; material = 'basketball' when undefined
TrajectoryObj(params) == LookupMaterial(DefaultName(params.material, "basketball"))

\* lines 51-78: the locals of calculateTrajectory before the loop
InitTrajectory(params) ==
  LET initialHeight == Default(params.initialHeight, 0)
      initialVelocity == Default(params.initialVelocity, Num(10))
      launchAngle == Default(params.launchAngle, Num(45))
      windSpeed == Default(params.windSpeed, 0)
      windDirection == Default(params.windDirection, 0)
  IN  [obj |-> TrajectoryObj(params),
       airDensity |-> Default(params.airDensity, globals.PHYSICS_CONSTANTS.AIR_DENSITY),
       gravity |-> Default(params.gravity, globals.PHYSICS_CONSTANTS.GRAVITY),
       vx |-> Mul(initialVelocity, CosDeg(launchAngle)),
       vy |-> Mul(initialVelocity, SinDeg(launchAngle)),
       x |-> 0,
       y |-> initialHeight,
       t |-> 0,
       windX |-> Mul(windSpeed, CosDeg(windDirection)),
       windY |-> Mul(windSpeed, SinDeg(windDirection))]

\* lines 82-92: the drag acceleration (dragX, dragY) of one iteration
DragAcceleration(l) ==
  LET vRelX == Sub(l.vx, l.windX)
      vRelY == Sub(l.vy, l.windY)
      vRel == Sqrt(SumSq(vRelX, vRelY))
      crossSectionalArea == Mul(Mul(PI, l.obj.radius), l.obj.radius)
      dragMagnitude ==
        Mul(Mul(Mul(Mul(Mul(HALF, l.obj.dragCoeff), l.airDensity),
                    crossSectionalArea), vRel), vRel)
  IN  Vec(IF GT(vRel, 0)
            THEN Div(Mul(Neg(dragMagnitude), Div(vRelX, vRel)), l.obj.mass) ELSE 0,
          IF GT(vRel, 0)
            THEN Div(Mul(Neg(dragMagnitude), Div(vRelY, vRel)), l.obj.mass) ELSE 0)

\* a slip in the velocity update: the acceleration is not scaled by dt
StepTrajectoryNoDt(l) ==
  LET drag == DragAcceleration(l)
      vx == Add(l.vx, drag.x)
      vy == Add(l.vy, Add(Neg(l.gravity), drag.y))
  IN  [l EXCEPT !.vx = vx, !.vy = vy,
                !.x = Add(l.x, Mul(vx, dt)),
                !.y = Add(l.y, Mul(vy, dt)),
                !.t = Add(l.t, dt)]

\* lines 94-100 and 111: the locals after one iteration of the loop
StepTrajectory(l) ==
  LET drag == DragAcceleration(l)
      vx == Add(l.vx, Mul(drag.x, dt))
      vy == Add(l.vy, Mul(Add(Neg(l.gravity), drag.y), dt))
  IN  [l EXCEPT !.vx = vx, !.vy = vy,
                !.x = Add(l.x, Mul(vx, dt)),
                !.y = Add(l.y, Mul(vy, dt)),
                !.t = Add(l.t, dt)]

\* lines 102-109: the sample pushed by the iteration that starts at time t
\* and leaves the locals l
Sample(t, l) ==
  [time |-> ToFixed(t, 3), x |-> ToFixed(l.x, 3), y |-> ToFixed(l.y, 3),
   vx |-> ToFixed(l.vx, 3), vy |-> ToFixed(l.vy, 3),
   speed |-> ToFixed(Sqrt(SumSq(l.vx, l.vy)), 3)]

\* a slip in the loop condition: a tolerance of 1 cm below the ground
LoopContinuesBelowGround(l) == GE(l.y, -(S \div 100)) /\ ~GT(l.t, Num(300))

\* a slip in the cutoff: the loop breaks one iteration late
LoopContinuesLate(l) == GE(l.y, 0) /\ ~GT(l.t, Add(Num(300), S \div 100))

\* while (y >= 0) { ...; if (t > 300) break; }
LoopContinues(l) == GE(l.y, 0) /\ ~GT(l.t, T_CUTOFF)

\* The trajectory array is kept by what the program reads of it: its length,
\* its last element, Math.max of the y of its elements, and the least y of
\* the elements before the last.
NoSample ==
  [time |-> undefined, x |-> undefined, y |-> undefined, vx |-> undefined,
   vy |-> undefined, speed |-> undefined]

\* const trajectory = []; Math.max() of no element is -Infinity
EmptyTrajectory ==
  [length |-> 0, last |-> NoSample, maxY |-> NaN, earlierMinY |-> undefined]

\* Math.max(a, b)
MathMax(a, b) == IF IsNaN(a) \/ IsNaN(b) THEN NaN ELSE IF a >= b THEN a ELSE b

MathMin(a, b) == IF IsNaN(a) \/ IsNaN(b) THEN NaN ELSE IF a <= b THEN a ELSE b

\* trajectory.push(sample)
Push(trajectory, sample) ==
  [length |-> trajectory.length + 1,
   last |-> sample,
   maxY |-> IF trajectory.length = 0 THEN sample.y
            ELSE MathMax(trajectory.maxY, sample.y),
   earlierMinY |-> IF trajectory.length = 0 THEN undefined
                   ELSE IF trajectory.length = 1 THEN trajectory.last.y
                   ELSE MathMin(trajectory.earlierMinY, trajectory.last.y)]

RECURSIVE Loop(_, _)
\* lines 80-115: the loop, from the locals l and the samples pushed so far
Loop(l, tr) ==
  IF LoopContinues(l)
    THEN LET n == StepTrajectory(l)
         IN  Loop(n, Push(tr, Sample(l.t, n)))
  ELSE tr

\* calculateTrajectory(params) as one call: the array it returns
calculateTrajectory(p) == Loop(InitTrajectory(p), EmptyTrajectory)

\* ------------------------------------------------------------------------
\* The request handlers (server.js 296-460)
\* ------------------------------------------------------------------------
VARIABLES
  pc,          \* "idle": waiting for a request; "integrating": in the loop of
               \* calculateTrajectory; "responded": the response is sent;
               \* "called", "returned": before and after a direct call
  route,       \* the route of the latest request, "core" for a direct call
  body,        \* req.body of the latest request
  params,      \* the argument of the latest call of calculateTrajectory
  locals,      \* the local variables of the running calculateTrajectory
  trajectory,  \* its trajectory array
  invoked,     \* the PhysicsEngine methods called for the latest request
  response     \* the response sent to the latest request

vars == <<globals, pc, route, body, params, locals, trajectory, invoked, response>>

Nothing == [nothing |-> TRUE]

\* res.status(status).json({ success, error, ... })
Failure(status, error) ==
  [status |-> status, success |-> FALSE, error |-> error, results |-> Nothing]

\* res.json({ success: true, results })
Success(results) ==
  [status |-> 200, success |-> TRUE, error |-> "", results |-> results]

Respond(r) ==
  /\ response' = r
  /\ pc' = "responded"

\* a slip in calculateTrajectory: the defaults are written into its argument
CallTrajectoryFillingDefaults(p) ==
  /\ params' = [p EXCEPT !.initialHeight = Default(p.initialHeight, 0),
                         !.material = DefaultName(p.material, "basketball")]
  /\ locals' = InitTrajectory(p)
  /\ trajectory' = EmptyTrajectory
  /\ invoked' = {"calculateTrajectory"}
  /\ response' = Nothing
  /\ pc' = "integrating"

\* the call of PhysicsEngine.calculateTrajectory(p): its locals are set up
CallTrajectory(p) ==
  /\ params' = p
  /\ locals' = InitTrajectory(p)
  /\ trajectory' = EmptyTrajectory
  /\ invoked' = {"calculateTrajectory"}
  /\ response' = Nothing
  /\ pc' = "integrating"

\* a slip in the validation: the lower bound of the angle is not checked
TrajectoryErrorUpperOnly(b) ==
  IF ~Truthy(b.initialVelocity) \/ LE(b.initialVelocity, 0)
    THEN "Initial velocity must be greater than 0"
  ELSE IF GT(b.launchAngle, 90 * 10^5)
    THEN "Launch angle must be between -90 and 90 degrees"
  ELSE ""

\* the validation of POST /api/trajectory: the error it reports, "" for none
TrajectoryError(b) ==
  IF ~Truthy(b.initialVelocity) \/ LE(b.initialVelocity, 0)
    THEN "Initial velocity must be greater than 0"
  ELSE IF LT(b.launchAngle, Num(-90)) \/ GT(b.launchAngle, Num(90))
    THEN "Launch angle must be between -90 and 90 degrees"
  ELSE ""

\* app.post('/api/trajectory'), up to the loop of calculateTrajectory
PostTrajectory(b) ==
  /\ pc = "idle"
  /\ route' = "trajectory"
  /\ body' = b
  /\ IF TrajectoryError(b) # ""
       THEN /\ Respond(Failure(400, TrajectoryError(b)))
            /\ invoked' = {}
            /\ params' = Nothing
            /\ locals' = Nothing
            /\ trajectory' = EmptyTrajectory
       ELSE CallTrajectory(b)
  /\ UNCHANGED globals

\* one iteration of the loop of calculateTrajectory
Integrate ==
  /\ pc = "integrating"
  /\ LoopContinues(locals)
  /\ locals' = StepTrajectory(locals)
  /\ trajectory' = Push(trajectory, Sample(locals.t, locals'))
  /\ UNCHANGED <<globals, pc, route, body, params, invoked, response>>

\* the results of POST /api/trajectory from the returned trajectory
TrajectoryResults(b, tr) ==
  LET finalPoint == tr.last
  IN  [summary |->
         [maxHeight |-> ToFixed(tr.maxY, 3),
          range |-> ToFixed(finalPoint.x, 3),
          flightTime |-> ToFixed(finalPoint.time, 3),
          landingVelocity |->
            [x |-> finalPoint.vx, y |-> finalPoint.vy, magnitude |-> finalPoint.speed]],
       impact |-> calculateImpact([vx |-> finalPoint.vx, vy |-> finalPoint.vy],
                                  b.material, b.impactSurface),
       length |-> tr.length]

\* app.post('/api/trajectory'), from the return of calculateTrajectory; of an
\* empty trajectory finalPoint is undefined, finalPoint.x throws a TypeError
\* and the catch clause answers 500
FinishTrajectory ==
  /\ pc = "integrating"
  /\ route = "trajectory"
  /\ ~LoopContinues(locals)
  /\ IF trajectory.length = 0
       THEN /\ Respond(Failure(500, "Internal server error during trajectory calculation"))
            /\ UNCHANGED invoked
       ELSE /\ Respond(Success(TrajectoryResults(body, trajectory)))
            /\ invoked' = invoked \cup {"calculateImpact"}
  /\ UNCHANGED <<globals, route, body, params, locals, trajectory>>

\* the objects of a collision request; NoObject is a missing one
NoObject == [missing |-> TRUE]

\* app.post('/api/collision')
PostCollision(b) ==
  /\ pc = "idle"
  /\ route' = "collision"
  /\ body' = b
  /\ IF b.object1 = NoObject \/ b.object2 = NoObject
       THEN /\ Respond(Failure(400, "Both object1 and object2 parameters are required"))
            /\ invoked' = {}
       ELSE IF CollisionThrows(b.object1, b.object2)
         THEN /\ Respond(Failure(500, "Internal server error during collision calculation"))
              /\ invoked' = {"calculateCollision"}
       ELSE /\ Respond(Success([collision |-> calculateCollision(b.object1, b.object2)]))
            /\ invoked' = {"calculateCollision"}
  /\ params' = Nothing
  /\ locals' = Nothing
  /\ trajectory' = EmptyTrajectory
  /\ UNCHANGED globals

\* app.post('/api/forces')
PostForces(b) ==
  /\ pc = "idle"
  /\ route' = "forces"
  /\ body' = b
  /\ IF ForcesThrows(b)
       THEN Respond(Failure(500, "Internal server error during force calculation"))
       ELSE Respond(Success([forces |-> calculateForces(b)]))
  /\ invoked' = {"calculateForces"}
  /\ params' = Nothing
  /\ locals' = Nothing
  /\ trajectory' = EmptyTrajectory
  /\ UNCHANGED globals

\* the scenarios of POST /api/quick-throw
scenarios ==
  [balcony_ball   |-> [material |-> "basketball", height |-> Num(10), angle |-> Num(15)],
   football_field |-> [material |-> "soccer", height |-> 0, angle |-> Num(30)],
   baseball_pitch |-> [material |-> "baseball", height |-> 150000, angle |-> 0],
   paper_airplane |-> [material |-> "paper_airplane", height |-> 150000, angle |-> Num(10)]]

\* scenarios[scenario] || { material: 'basketball' }; a member inherited from
\* Object.prototype has none of the three properties
ScenarioConfig(scenario) ==
  IF scenario \in DOMAIN scenarios THEN scenarios[scenario]
  ELSE IF scenario \in ObjectPrototypeKeys
    THEN [material |-> NoName, height |-> undefined, angle |-> undefined]
  ELSE [material |-> "basketball", height |-> undefined, angle |-> undefined]

\* a || b
Or(a, b) == IF Truthy(a) THEN a ELSE b

QuickThrowBody(sc, h, v, a) == [scenario |-> sc, height |-> h, velocity |-> v, angle |-> a]

\* the params that POST /api/quick-throw builds (lines 413-431)
QuickThrowParams(b) ==
  LET height == Default(b.height, 0)
      velocity == Default(b.velocity, Num(10))
      angle == Default(b.angle, Num(45))
      config == ScenarioConfig(b.scenario)
  IN  TrajectoryParams(Or(config.height, height), velocity, Or(config.angle, angle),
                       config.material, 0, 0, undefined, undefined, NoName)

\* app.post('/api/quick-throw'), up to the loop of calculateTrajectory
PostQuickThrow(b) ==
  /\ pc = "idle"
  /\ route' = "quick-throw"
  /\ body' = b
  /\ CallTrajectory(QuickThrowParams(b))
  /\ UNCHANGED globals

\* the results of POST /api/quick-throw from the returned trajectory
QuickThrowResults(p, tr) ==
  LET finalPoint == tr.last
      impact == calculateImpact([vx |-> finalPoint.vx, vy |-> finalPoint.vy],
                                p.material, NoName)
  IN  [landingDistance |-> ToFixed(finalPoint.x, 2),
       flightTime |-> ToFixed(finalPoint.time, 2),
       maxHeight |-> ToFixed(tr.maxY, 2),
       impactSpeed |-> impact.impactSpeed,
       impactForce |-> impact.impactForce,
       safetyWarning |-> GT(impact.impactForce, Num(1000))]

\* app.post('/api/quick-throw'), from the return of calculateTrajectory
FinishQuickThrow ==
  /\ pc = "integrating"
  /\ route = "quick-throw"
  /\ ~LoopContinues(locals)
  /\ IF trajectory.length = 0
       THEN /\ Respond(Failure(500, "Internal server error during quick calculation"))
            /\ UNCHANGED invoked
       ELSE /\ Respond(Success(QuickThrowResults(params, trajectory)))
            /\ invoked' = invoked \cup {"calculateImpact"}
  /\ UNCHANGED <<globals, route, body, params, locals, trajectory>>

\* ------------------------------------------------------------------------
\* The requests of the model
\* ------------------------------------------------------------------------
MaxHeight == 2

MaxMass == 2

\* an initial velocity of the model, in m/s
Speed == Num(5)

\* a weak gravity (0.01 m/s^2), under which a throw outlasts the cutoff
WeakGravity == S \div 100

MaterialNames == {NoName, "basketball", "custom", "unobtainium", "toString"}

Heights == {undefined, Num(-1)} \cup {Num(h) : h \in 0..MaxHeight}

TrajectoryBodies ==
  {TrajectoryParams(h, v, a, m, undefined, undefined, undefined, undefined, NoName) :
     h \in Heights,
     v \in {undefined, Num(-5), 0, Speed},
     a \in {undefined, Num(-100), Num(-90), 0, Num(45), Num(90), Num(120)},
     m \in MaterialNames}

\* a number that a request carries as 1e999: JSON.parse makes it Infinity
Infinity == NaN

Masses == {undefined, Num(-1)} \cup {Num(m) : m \in 0..MaxMass}

Object1s ==
  {NoObject} \cup
  {CollisionObject(m, v, undefined, NoVector, undefined) :
     m \in Masses, v \in {NoVector, JNull, Vec(Num(5), 0), Vec(Num(-3), Num(2))}}

Object2s ==
  {NoObject} \cup
  {CollisionObject(undefined, NoVector, m, v, e) :
     m \in Masses, v \in {NoVector, Vec(0, 0), Vec(Num(4), Num(-1))},
     e \in {undefined, 0, HALF, S, 3 * HALF, Infinity}}

CollisionBodies == {[object1 |-> o1, object2 |-> o2] : o1 \in Object1s, o2 \in Object2s}

ForcesBodies ==
  {ForcesParams(m, v, undefined, mat, air) :
     m \in {undefined} \cup {Num(k) : k \in 1..MaxMass},
     v \in {NoVector, JNull, Vec(0, 0), Vec(Num(10), Num(5)), Vec(Num(-3), Num(4))},
     mat \in MaterialNames \cup {"rock"},
     air \in {JTrue, JFalse, JUndefined}}

QuickThrowBodies ==
  {QuickThrowBody(sc, h, v, a) :
     sc \in {NoName, "moon_shot"} \cup DOMAIN scenarios,
     h \in {undefined, Num(-1), Num(MaxHeight)},
     v \in {undefined, Num(-5), 0, Speed},
     a \in {undefined, Num(60), Num(120)}}

\* thin air (0.01 kg/m^3)
ThinAir == S \div 100

\* valid parameter sets whose flight outlasts the cutoff: a throw under weak
\* gravity, in thin air and in sea-level air, and a paper airplane in an
\* updraft of 10 m/s
LongFlights ==
  {TrajectoryParams(0, Speed, Num(45), "basketball", 0, 0, ThinAir, WeakGravity, NoName),
   TrajectoryParams(Num(1), Speed, 0, "unobtainium", Num(10), Num(90), undefined,
                    WeakGravity, NoName),
   TrajectoryParams(0, Speed, Num(45), "paper_airplane", Num(10), Num(90), undefined,
                    undefined, NoName)}

\* a steep downward throw of a basketball from 1 m, in still air and into a
\* headwind of 10 m/s
SteepThrows ==
  {TrajectoryParams(Num(1), Num(10), Num(-60), "basketball", ws, Num(180), undefined,
                    undefined, NoName) : ws \in {0, Num(10)}}

\* the parameter sets that the data model calls valid
ValidTrajectoryParams ==
  LongFlights \cup SteepThrows \cup
  {TrajectoryParams(h, v, a, m, ws, wd, rho, g, NoName) :
     h \in {Num(k) : k \in 0..MaxHeight},
     v \in {Speed},
     a \in {Num(-90), 0, Num(45), Num(90)},
     m \in {"basketball", "unobtainium", "paper_airplane", "toString"},
     ws \in {0, Num(3)},
     wd \in {0, Num(180)},
     rho \in {undefined},
     g \in {undefined}}

IsValid(p) ==
  /\ GE(Default(p.initialHeight, 0), 0)
  /\ GT(Default(p.initialVelocity, Num(10)), 0)
  /\ GE(Default(p.launchAngle, Num(45)), Num(-90))
  /\ LE(Default(p.launchAngle, Num(45)), Num(90))
  /\ GE(Default(p.windSpeed, 0), 0)
  /\ GT(Default(p.airDensity, AIR_DENSITY), 0)
  /\ GT(Default(p.gravity, GRAVITY), 0)

\* ------------------------------------------------------------------------
\* The service: requests are handled one at a time
\* ------------------------------------------------------------------------
Init ==
  /\ globals = ModuleScope
  /\ pc = "idle"
  /\ route = "none"
  /\ body = Nothing
  /\ params = Nothing
  /\ locals = Nothing
  /\ trajectory = EmptyTrajectory
  /\ invoked = {}
  /\ response = Nothing

\* the handler has returned: nothing of the request is kept, and the service
\* waits for the next one
NextRequest ==
  /\ pc = "responded"
  /\ pc' = "idle"
  /\ route' = "none"
  /\ body' = Nothing
  /\ params' = Nothing
  /\ locals' = Nothing
  /\ trajectory' = EmptyTrajectory
  /\ UNCHANGED globals
  /\ invoked' = {}
  /\ response' = Nothing

Next ==
  \/ \E b \in TrajectoryBodies : PostTrajectory(b)
  \/ \E b \in CollisionBodies : PostCollision(b)
  \/ \E b \in ForcesBodies : PostForces(b)
  \/ \E b \in QuickThrowBodies : PostQuickThrow(b)
  \/ Integrate
  \/ FinishTrajectory
  \/ FinishQuickThrow
  \/ NextRequest

Spec == Init /\ [][Next]_vars

\* ------------------------------------------------------------------------
\* The integrator alone: calculateTrajectory called with valid parameters
\* ------------------------------------------------------------------------
InitCore ==
  /\ globals = ModuleScope
  /\ pc = "called"
  /\ route = "core"
  /\ body = Nothing
  /\ params \in ValidTrajectoryParams
  /\ locals = Nothing
  /\ trajectory = EmptyTrajectory
  /\ invoked = {"calculateTrajectory"}
  /\ response = Nothing

\* lines 51-78
Enter ==
  /\ pc = "called"
  /\ locals' = InitTrajectory(params)
  /\ pc' = "integrating"
  /\ UNCHANGED <<globals, route, body, params, trajectory, invoked, response>>

\* return trajectory
Return ==
  /\ pc = "integrating"
  /\ route = "core"
  /\ ~LoopContinues(locals)
  /\ pc' = "returned"
  /\ UNCHANGED <<globals, route, body, params, locals, trajectory, invoked, response>>

NextCore == Enter \/ Integrate \/ Return

SpecCore == InitCore /\ [][NextCore]_vars

\* ------------------------------------------------------------------------
\* The integrator without air: launches at 45 degrees from the ground with
\* airDensity = 0 and no wind, under standard and under weaker gravity
\* ------------------------------------------------------------------------
LowGravity == S \div 100

VacuumThrows ==
  {TrajectoryParams(0, Num(v), Num(45), m, 0, 0, 0, undefined, NoName) :
     v \in {1, 5, 8, 10, 20}, m \in {"basketball", "paper_airplane", "toString"}}
  \cup
  {TrajectoryParams(0, Num(v), Num(45), "basketball", undefined, undefined, 0,
                    LowGravity, NoName) : v \in {2, 5}}

InitVacuum ==
  /\ globals = ModuleScope
  /\ pc = "called"
  /\ route = "core"
  /\ body = Nothing
  /\ params \in VacuumThrows
  /\ locals = Nothing
  /\ trajectory = EmptyTrajectory
  /\ invoked = {"calculateTrajectory"}
  /\ response = Nothing

SpecVacuum == InitVacuum /\ [][NextCore]_vars

\* ------------------------------------------------------------------------
\* Properties
\* ------------------------------------------------------------------------

\* C1: called with valid parameters, calculateTrajectory terminates, and the
\* sequence it returns is not empty and its last sample has a time of at
\* most 300 s.  Termination is the bounded variant: every iteration pushes
\* one sample and advances the simulated time t by dt, and t never passes
\* 300 s + dt, so the loop runs finitely often.
C1_Terminates ==
  /\ pc \in {"integrating", "returned"} =>
       /\ locals.t = trajectory.length * dt
       /\ LE(locals.t, Add(T_CUTOFF, dt))
  /\ pc = "returned" =>
       /\ IsValid(params)
       /\ trajectory.length >= 1
       /\ LE(trajectory.last.time, T_CUTOFF)

\* a valid call has returned a sequence that the cutoff ended, above ground
C1_Witness ==
  /\ pc = "returned"
  /\ IsValid(params)
  /\ GE(locals.y, 0)
  /\ trajectory.length >= 1
  /\ trajectory.last.time = T_CUTOFF

\* C2, as stated: calculateTrajectory runs at most 30,000 iterations
C2_Original == trajectory.length <= 30000

\* C2, amended: calculateTrajectory runs at most 30,001 iterations; the one
\* that starts at t = 300.00 s still runs, since the loop breaks on t > 300
C2_AtMost30001Steps ==
  /\ trajectory.length <= 30001
  /\ pc = "returned" /\ GE(locals.y, 0) => trajectory.length = 30001

\* the cutoff has ended a call after 30,001 iterations
C2_Witness ==
  /\ pc = "returned"
  /\ trajectory.length = 30001
  /\ trajectory.last.time = T_CUTOFF
  /\ GT(locals.t, T_CUTOFF)

\* the three constraints of the data model that C3 names, on the parameters
\* as calculateTrajectory destructures them
C3_Checked(p) ==
  /\ GE(Default(p.initialHeight, 0), 0)
  /\ GT(Default(p.initialVelocity, Num(10)), 0)
  /\ GE(Default(p.launchAngle, Num(45)), Num(-90))
  /\ LE(Default(p.launchAngle, Num(45)), Num(90))

\* C3, as stated: on both routes, whenever calculateTrajectory is called its
\* parameters have initialHeight >= 0, initialVelocity > 0 and a launchAngle
\* in [-90, 90]
C3_Original ==
  route \in {"trajectory", "quick-throw"} /\ "calculateTrajectory" \in invoked
    => C3_Checked(params)

VelocityMessage == "Initial velocity must be greater than 0"

AngleMessage == "Launch angle must be between -90 and 90 degrees"

ObjectsMessage == "Both object1 and object2 parameters are required"

AngleOutOfRange(b) == LT(b.launchAngle, Num(-90)) \/ GT(b.launchAngle, Num(90))

\* C4, as stated: initialVelocity <= 0 is answered 400 with the velocity
\* message, a launchAngle outside [-90, 90] is answered 400 with the angle
\* message, a collision request without object1 or object2 is answered 400
\* with its message; the physics core is not called
C4_Original ==
  /\ route = "trajectory" /\ pc = "responded" /\ LE(body.initialVelocity, 0)
       => response = Failure(400, VelocityMessage) /\ invoked = {}
  /\ route = "trajectory" /\ pc = "responded" /\ AngleOutOfRange(body)
       => response = Failure(400, AngleMessage) /\ invoked = {}
  /\ route = "collision" /\ pc = "responded"
       /\ (body.object1 = NoObject \/ body.object2 = NoObject)
       => response = Failure(400, ObjectsMessage) /\ invoked = {}

\* C4, amended: the velocity is checked first, so a launchAngle outside
\* [-90, 90] is answered with the angle message when initialVelocity > 0,
\* and with the velocity message otherwise; each of the three failures is
\* answered 400 with success = false, and the physics core is not called
C4_BoundaryFailures ==
  /\ route = "trajectory" /\ LE(body.initialVelocity, 0)
       => pc = "responded" /\ response = Failure(400, VelocityMessage) /\ invoked = {}
  /\ route = "trajectory" /\ AngleOutOfRange(body)
       => /\ pc = "responded"
          /\ invoked = {}
          /\ response = Failure(400, IF GT(body.initialVelocity, 0)
                                       THEN AngleMessage ELSE VelocityMessage)
  /\ route = "collision" /\ (body.object1 = NoObject \/ body.object2 = NoObject)
       => pc = "responded" /\ response = Failure(400, ObjectsMessage) /\ invoked = {}

\* a launch angle above 90 degrees with a valid velocity has been rejected
C4_Witness ==
  /\ route = "trajectory"
  /\ pc = "responded"
  /\ GT(body.initialVelocity, 0)
  /\ GT(body.launchAngle, Num(90))
  /\ response = Failure(400, AngleMessage)
  /\ invoked = {}

\* a material name that is none of the nine keys of the catalog
ForcesDone == route = "forces" /\ "calculateForces" \in invoked /\ response.success

Uncatalogued(material) == material # NoName /\ material \notin DOMAIN MATERIALS

\* C5, as stated: for every material name that is none of the nine catalog
\* keys, calculateTrajectory, calculateImpact and calculateForces use exactly
\* the custom entry (mass 1, radius 0.05, dragCoeff 0.47, bounciness 0.6)
C5_Original ==
  /\ "calculateTrajectory" \in invoked /\ Uncatalogued(params.material)
       => locals.obj = Material(Num(1), 5000, 47000, 60000)
  /\ route = "trajectory" /\ "calculateImpact" \in invoked /\ Uncatalogued(body.material)
       => response.results.impact =
            calculateImpact([vx |-> trajectory.last.vx, vy |-> trajectory.last.vy],
                            "custom", body.impactSurface)
  /\ ForcesDone /\ Uncatalogued(body.material)
       => response.results.forces = calculateForces([body EXCEPT !.material = "custom"])

\* the collision that POST /api/collision has resolved: its arguments
Resolved == route = "collision" /\ "calculateCollision" \in invoked /\ response.success

Args == CollisionArgs(body.object1, body.object2)

\* m1 * v1 + m2 * v2 along one axis, exact for the masses of the model,
\* which are whole numbers
Momentum(m1, v1, m2, v2) == Add(Mul(m1, v1), Mul(m2, v2))

\* the momentum after the collision minus the momentum before, per axis
MomentumChange ==
  LET a == Args
      c == response.results.collision
  IN  Vec(Sub(Momentum(a.mass1, c.object1FinalVelocity.x, a.mass2, c.object2FinalVelocity.x),
              Momentum(a.mass1, a.velocity1.x, a.mass2, a.velocity2.x)),
          Sub(Momentum(a.mass1, c.object1FinalVelocity.y, a.mass2, c.object2FinalVelocity.y),
              Momentum(a.mass1, a.velocity1.y, a.mass2, a.velocity2.y)))

Elastic == Resolved /\ Args.restitution = S /\ GT(Args.mass1, 0) /\ GT(Args.mass2, 0)

\* C6, as stated: with restitution = 1 and positive masses the returned
\* velocities conserve the momentum of each axis within 10^-6 of its size
C6_Original ==
  Elastic =>
    /\ Abs(MomentumChange.x) * 10^6
         <= Abs(Momentum(Args.mass1, Args.velocity1.x, Args.mass2, Args.velocity2.x))
    /\ Abs(MomentumChange.y) * 10^6
         <= Abs(Momentum(Args.mass1, Args.velocity1.y, Args.mass2, Args.velocity2.y))

\* C6, amended: the returned velocities are rounded to three decimals, so
\* with restitution = 1 and positive masses they conserve the momentum of
\* each axis within 0.0005 * (m1 + m2)
C6_MomentumWithinRounding ==
  Elastic =>
    /\ Abs(MomentumChange.x) * 2000 <= Add(Args.mass1, Args.mass2)
    /\ Abs(MomentumChange.y) * 2000 <= Add(Args.mass1, Args.mass2)

\* an elastic collision whose returned velocities lost momentum to rounding
C6_Witness ==
  /\ Elastic
  /\ MomentumChange.x # 0
  /\ response.results.collision.object1FinalVelocity.x # Args.velocity1.x

\* C7: for positive masses and a restitution in [0, 1] the energyLoss that
\* calculateCollision returns is >= 0 (it may be negative above 1)
C7_EnergyLossNonNegative ==
  Resolved /\ GT(Args.mass1, 0) /\ GT(Args.mass2, 0)
    /\ GE(Args.restitution, 0) /\ LE(Args.restitution, S)
    => GE(response.results.collision.energyLoss, 0)

\* a collision with a restitution strictly between 0 and 1 has lost energy
C7_Witness ==
  /\ Resolved
  /\ GT(Args.mass1, 0) /\ GT(Args.mass2, 0)
  /\ GT(Args.restitution, 0) /\ LT(Args.restitution, S)
  /\ GT(response.results.collision.energyLoss, 0)

\* a collision with a restitution above 1 has gained energy
C7_GainWitness ==
  /\ Resolved
  /\ GT(Args.mass1, 0) /\ GT(Args.mass2, 0)
  /\ GT(Args.restitution, S)
  /\ LT(response.results.collision.energyLoss, 0)

\* C8, as stated: whenever POST /api/collision calls the resolver, each mass
\* and the total mass are > 0, and the division by the total mass yields
\* finite velocities
C8_Original ==
  Resolved =>
    /\ GT(Args.mass1, 0)
    /\ GT(Args.mass2, 0)
    /\ GT(Add(Args.mass1, Args.mass2), 0)
    /\ ~IsNaN(response.results.collision.object1FinalVelocity.x)
    /\ ~IsNaN(response.results.collision.object2FinalVelocity.x)

\* C9, as stated: the gravity vector that calculateForces returns is
\* (0, -mass * g), mass being the mass of the request (1 by default)
C9_Original ==
  ForcesDone =>
    response.results.forces.gravity.vector
      = Vec(0, Neg(Mul(Default(body.mass, Num(1)), GRAVITY)))

\* the vectors of a forces result that are present, summed per axis
SumOfPresent(f) ==
  LET drag == IF "airResistance" \in DOMAIN f THEN f.airResistance.vector ELSE Vec(0, 0)
  IN  Vec(Add(Add(f.gravity.vector.x, f.buoyancy.vector.x), drag.x),
          Add(Add(f.gravity.vector.y, f.buoyancy.vector.y), drag.y))

\* C10, as stated: airResistance is present exactly when includeAirResistance
\* is true (its default); gravity and buoyancy are present either way, with
\* the same values; net is the sum, per axis, of the vectors present (to the
\* three decimals it is reported with)
C10_Original ==
  ForcesDone /\ body.velocity # JNull =>
    LET f == response.results.forces
        other == calculateForces(
                   [body EXCEPT !.includeAirResistance =
                      IF body.includeAirResistance = JFalse THEN JTrue ELSE JFalse])
    IN  /\ ("airResistance" \in DOMAIN f) <=> (body.includeAirResistance # JFalse)
        /\ {"gravity", "buoyancy", "net"} \subseteq DOMAIN f
        /\ f.gravity = other.gravity
        /\ f.buoyancy = other.buoyancy
        /\ f.net.vector = Vec(ToFixed(SumOfPresent(f).x, 3), ToFixed(SumOfPresent(f).y, 3))

\* C10 on the materials whose properties are numbers (the catalog and the
\* custom fallback): there the statement holds
C10_FiniteMaterials ==
  ForcesDone /\ body.material \notin ObjectPrototypeKeys => C10_Original

\* the faults of a request: the trajectory came back empty, a null velocity
\* was dereferenced, or a number of the request is not finite
EmptyTrajectoryFault ==
  /\ route \in {"trajectory", "quick-throw"}
  /\ "calculateTrajectory" \in invoked
  /\ trajectory.length = 0

NullVelocityFault ==
  \/ route = "collision" /\ "calculateCollision" \in invoked
       /\ CollisionThrows(body.object1, body.object2)
  \/ route = "forces" /\ "calculateForces" \in invoked /\ ForcesThrows(body)

NonFiniteInputFault ==
  /\ route = "collision"
  /\ "calculateCollision" \in invoked
  /\ ~CollisionThrows(body.object1, body.object2)
  /\ Args.restitution = Infinity

InternalError ==
  /\ response.status = 500
  /\ response.success = FALSE
  /\ response.error # ""

\* C11, as stated: a fault met while a POST handler runs the physics core (an
\* empty trajectory, a null velocity object, a non-finite input) ends in a
\* 500 response with success = false and an error message
C11_Original ==
  pc = "responded" /\ (EmptyTrajectoryFault \/ NullVelocityFault \/ NonFiniteInputFault)
    => InternalError

\* the part of C11 that the code keeps: a fault that throws is caught by the
\* handler and answered with 500, and every request gets a response
C11_ThrownFaults ==
  /\ pc = "responded" /\ (EmptyTrajectoryFault \/ NullVelocityFault) => InternalError
  /\ pc = "responded" => response.status \in {200, 400, 500}

\* the argument that a handler passes to calculateTrajectory
ArgumentOf(r, b) == IF r = "quick-throw" THEN QuickThrowParams(b) ELSE b

\* the response to a request that is served alone, with the module-level
\* objects as the module built them: the handler as one evaluation
ServedAlone(r, b) ==
  CASE r = "trajectory" ->
         IF TrajectoryError(b) # "" THEN Failure(400, TrajectoryError(b))
         ELSE LET tr == calculateTrajectory(b)
              IN  IF tr.length = 0
                    THEN Failure(500, "Internal server error during trajectory calculation")
                  ELSE Success(TrajectoryResults(b, tr))
    [] r = "quick-throw" ->
         LET tr == calculateTrajectory(QuickThrowParams(b))
         IN  IF tr.length = 0
               THEN Failure(500, "Internal server error during quick calculation")
             ELSE Success(QuickThrowResults(QuickThrowParams(b), tr))
    [] r = "collision" ->
         IF b.object1 = NoObject \/ b.object2 = NoObject
           THEN Failure(400, "Both object1 and object2 parameters are required")
         ELSE IF CollisionThrows(b.object1, b.object2)
           THEN Failure(500, "Internal server error during collision calculation")
         ELSE Success([collision |-> calculateCollision(b.object1, b.object2)])
    [] r = "forces" ->
         IF ForcesThrows(b)
           THEN Failure(500, "Internal server error during force calculation")
         ELSE Success([forces |-> calculateForces(b)])

Headwind(p) ==
  /\ GT(Default(p.windSpeed, 0), 0)
  /\ Default(p.windDirection, 0) = Num(180)
  /\ GT(Default(p.launchAngle, Num(45)), Num(-90))
  /\ LT(Default(p.launchAngle, Num(45)), Num(90))

\* the range of the same launch in still air
StillAirRange(p) == calculateTrajectory([p EXCEPT !.windSpeed = 0]).last.x

\* C13, as stated: a pure headwind with a positive windSpeed makes the range
\* (x of the final sample) strictly smaller than the range of the same launch
\* with windSpeed = 0 (stated of the launches whose range is a number)
C13_Original ==
  pc = "returned" /\ Headwind(params) /\ ~IsNaN(trajectory.last.x)
    => LT(trajectory.last.x, StillAirRange(params))

\* C13 without its strictness: a pure headwind does not make the range larger
C13_NotLarger ==
  pc = "returned" /\ Headwind(params) /\ ~IsNaN(trajectory.last.x)
    => LE(trajectory.last.x, StillAirRange(params))

\* a launch at 45 degrees from ground level at a speed v > 0, with no wind
\* and no drag (the drag acceleration of the launch is zero)
Ideal45(p) ==
  /\ Default(p.initialHeight, 0) = 0
  /\ Default(p.launchAngle, Num(45)) = Num(45)
  /\ GT(Default(p.initialVelocity, Num(10)), 0)
  /\ Default(p.windSpeed, 0) = 0
  /\ DragAcceleration(InitTrajectory(p)) = Vec(0, 0)

\* v^2 / g
IdealRange(p) ==
  LET v == Default(p.initialVelocity, Num(10))
  IN  Div(Mul(v, v), Default(p.gravity, GRAVITY))

\* the flight time of the ideal launch, sqrt(2) * v / g
IdealFlightTime(p) ==
  Div(Mul(141421, Default(p.initialVelocity, Num(10))), Default(p.gravity, GRAVITY))

WithinOnePercent(x, r) == ~IsNaN(x) /\ ~IsNaN(r) /\ Abs(x - r) * 100 <= Abs(r)

\* C14, as stated: for a launch at 45 degrees from ground level at any speed
\* v > 0 with zero drag and zero wind, the x of the final sample is within
\* 1% of v^2 / g
C14_Original ==
  pc = "returned" /\ Ideal45(params)
    => WithinOnePercent(trajectory.last.x, IdealRange(params))

\* C14, amended: the same, for the speeds whose ideal flight time
\* sqrt(2) * v / g is between 1.1 s and 300 s; the range is a whole number of
\* steps of 0.01 s, so a shorter flight can be off by more than 1%, and a
\* longer one is cut at 300 s
C14_RangeWithinOnePercent ==
  pc = "returned" /\ Ideal45(params)
    /\ GE(IdealFlightTime(params), 110000) /\ LE(IdealFlightTime(params), T_CUTOFF)
    => WithinOnePercent(trajectory.last.x, IdealRange(params))

\* an ideal launch with a flight time in that interval has landed, short of
\* v^2 / g by the part of a step
C14_Witness ==
  /\ pc = "returned"
  /\ Ideal45(params)
  /\ GE(IdealFlightTime(params), 110000) /\ LE(IdealFlightTime(params), T_CUTOFF)
  /\ LT(locals.y, 0)
  /\ LT(trajectory.last.x, IdealRange(params))

CutOff == trajectory.length = 30001 /\ GT(locals.t, T_CUTOFF)

C15_CutOffWitness ==
  /\ pc = "returned"
  /\ CutOff
  /\ GT(trajectory.last.y, 0)

\* C16, as stated: POST /api/quick-throw runs a predefined scenario with the
\* height, the angle and the material that the scenario configures, zero
\* included, whatever height and angle the request carries; for any other
\* scenario it runs a basketball with the height and the angle of the
\* request (0 and 45 by default)
C16_Original ==
  route = "quick-throw" /\ "calculateTrajectory" \in invoked =>
    IF body.scenario \in DOMAIN scenarios
      THEN /\ params.initialHeight = scenarios[body.scenario].height
           /\ params.launchAngle = scenarios[body.scenario].angle
           /\ params.material = scenarios[body.scenario].material
    ELSE /\ params.initialHeight = Default(body.height, 0)
         /\ params.launchAngle = Default(body.angle, Num(45))
         /\ locals.obj = MATERIALS.basketball

\* C16 for the configured values that are not 0: there the statement holds
C16_NonZeroConfigured ==
  route = "quick-throw" /\ "calculateTrajectory" \in invoked =>
    IF body.scenario \in DOMAIN scenarios
      THEN /\ scenarios[body.scenario].height # 0
                => params.initialHeight = scenarios[body.scenario].height
           /\ scenarios[body.scenario].angle # 0
                => params.launchAngle = scenarios[body.scenario].angle
           /\ params.material = scenarios[body.scenario].material
    ELSE /\ params.initialHeight = Default(body.height, 0)
         /\ params.launchAngle = Default(body.angle, Num(45))
         /\ locals.obj = MATERIALS.basketball

====
